---- MODULE Spec2Model ----
(***************************************************************************)
(* S-graphs of the HR algebra (src/M4LP/HW5/graphs.py, class SGraph).      *)
(*                                                                         *)
(* An SGraph instance holds references to four containers (the set nodes   *)
(* and the dicts edges, node_labels, sources) and the immediate value      *)
(* root.  The model keeps the references: objs maps an instance to the     *)
(* cells its fields point at, store holds the content of every cell.       *)
(* A Python dict is an insertion-ordered sequence of <<key, value>> pairs  *)
(* with unique keys; an edge list is a sequence of <<target, label>>.      *)
(***************************************************************************)
EXTENDS Integers, Sequences, FiniteSets, TLC

VARIABLES
    objs,    \* instance -> [nodes, edges, node_labels, sources : cell, root]
    store,   \* cell -> [nodes, edges, node_labels, sources] (content)
    live,    \* the instances that exist
    args,    \* the constructor arguments of the construction run
    last,    \* the last call: [op, obj, other, outcome]
    ret,     \* what the last to_penman or __eq__ returned, and from what
    thr      \* thread -> the call it is in: position, locals, result

vars == <<objs, store, live, args, last, ret, thr>>

-----------------------------------------------------------------------------
(* Bounds and domains *)

\* largest node identifier of a hand-built graph
MaxNode == 2
\* largest node identifier the harness passes to replace_node / add_source
MaxId == 3

\* Python's None (root unset, argument omitted); node identifiers are >= 1
None == 0

\* source names of the hand-built graphs, and those a caller passes
SeedOrder == <<"S", "O">>
SeedNames == {SeedOrder[i] : i \in DOMAIN SeedOrder}
SourceNames == SeedNames \cup {"X"}
NodeLabels == {"see", "dog"}
EdgeLabels == {"ARG0", "ARG1"}

\* outcomes of a call
OK == "ok"
AssertionError == "AssertionError"
KeyError == "KeyError"
ValueError == "ValueError"
GraphError == "GraphError"

-----------------------------------------------------------------------------
(* Python dict, insertion ordered *)

Keys(d) == {d[i][1] : i \in DOMAIN d}

Values(d) == {d[i][2] : i \in DOMAIN d}

KeySeq(d) == [i \in DOMAIN d |-> d[i][1]]

Has(d, k) == k \in Keys(d)

Idx(d, k) == CHOOSE i \in DOMAIN d : d[i][1] = k

\* d[k]
Get(d, k) == d[Idx(d, k)][2]

\* d[k] = v : an existing key keeps its position, a new key goes last
Put(d, k, v) ==
    IF Has(d, k) THEN [d EXCEPT ![Idx(d, k)] = <<k, v>>]
    ELSE Append(d, <<k, v>>)

\* d.pop(k), the dict that is left
Pop(d, k) == SelectSeq(d, LAMBDA e : e[1] # k)

RECURSIVE UpdateFrom(_, _, _)
UpdateFrom(d, e, i) ==
    IF i > Len(e) THEN d
    ELSE UpdateFrom(Put(d, e[i][1], e[i][2]), e, i + 1)

\* d.update(e)
Update(d, e) == UpdateFrom(d, e, 1)

\* the dict as a mapping, order forgotten
AsMap(d) == {<<d[i][1], d[i][2]>> : i \in DOMAIN d}

\* all orders in which a set can be iterated
Perms(S) ==
    {p \in [1..Cardinality(S) -> S] : \A i, j \in DOMAIN p : i # j => p[i] # p[j]}

SetMax(S) == CHOOSE m \in S : \A x \in S : x <= m

-----------------------------------------------------------------------------
(* SGraph as a value: the content an instance's fields reach *)

EmptyGraph ==
    [nodes |-> {}, edges |-> <<>>, node_labels |-> <<>>, sources |-> <<>>,
     root |-> None]

\* targets of all edges
EdgeTargets(g) ==
    UNION {{g.edges[i][2][j][1] : j \in DOMAIN g.edges[i][2]} : i \in DOMAIN g.edges}

\* section 3, invariants 1-3
Inv1(g) == Keys(g.edges) \subseteq g.nodes /\ EdgeTargets(g) \subseteq g.nodes
Inv2(g) == Values(g.sources) \subseteq g.nodes /\ Keys(g.node_labels) \subseteq g.nodes
Inv3(g) == g.root # None => g.root \in g.nodes
Valid(g) == Inv1(g) /\ Inv2(g) /\ Inv3(g)

\* SGraph.get_sources_for_node
get_sources_for_node(g, n) ==
    SelectSeq(KeySeq(g.sources), LAMBDA s : Get(g.sources, s) = n)

\* SGraph.get_node_label
get_node_label(g, n) == IF Has(g.node_labels, n) THEN Get(g.node_labels, n) ELSE ""

\* replace_node that renames the node but leaves the edges pointing at it alone
replace_node_keeps_targets(g, old_node, new_node) ==
    IF new_node \in g.nodes THEN [g |-> g, err |-> AssertionError]
    ELSE IF old_node \notin g.nodes
    THEN [g |-> [g EXCEPT !.root = IF g.root = old_node THEN new_node ELSE g.root],
          err |-> KeyError]
    ELSE [g |-> [nodes |-> (g.nodes \ {old_node}) \cup {new_node},
                 edges |-> IF Has(g.edges, old_node)
                           THEN Append(Pop(g.edges, old_node),
                                       <<new_node, Get(g.edges, old_node)>>)
                           ELSE g.edges,
                 node_labels |-> IF Has(g.node_labels, old_node)
                                 THEN Append(Pop(g.node_labels, old_node),
                                             <<new_node, Get(g.node_labels, old_node)>>)
                                 ELSE g.node_labels,
                 sources |-> [i \in DOMAIN g.sources |->
                                 IF g.sources[i][2] = old_node
                                 THEN <<g.sources[i][1], new_node>>
                                 ELSE g.sources[i]],
                 root |-> IF g.root = old_node THEN new_node ELSE g.root],
          err |-> OK]

\* SGraph.replace_node: the graph left behind and the outcome
replace_node(g, old_node, new_node) ==
    IF new_node \in g.nodes THEN [g |-> g, err |-> AssertionError]
    ELSE
      LET root1 == IF g.root = old_node THEN new_node ELSE g.root IN
      IF old_node \notin g.nodes
      THEN [g |-> [g EXCEPT !.root = root1], err |-> KeyError]
      ELSE
        LET nodes1 == (g.nodes \ {old_node}) \cup {new_node}
            edges1 == IF Has(g.edges, old_node)
                      THEN Append(Pop(g.edges, old_node),
                                  <<new_node, Get(g.edges, old_node)>>)
                      ELSE g.edges
            retarget(es) ==
                [j \in DOMAIN es |->
                    IF es[j][1] = old_node THEN <<new_node, es[j][2]>> ELSE es[j]]
            edges2 == [i \in DOMAIN edges1 |->
                          <<edges1[i][1], retarget(edges1[i][2])>>]
            sources1 == [i \in DOMAIN g.sources |->
                            IF g.sources[i][2] = old_node
                            THEN <<g.sources[i][1], new_node>>
                            ELSE g.sources[i]]
            labels1 == IF Has(g.node_labels, old_node)
                       THEN Append(Pop(g.node_labels, old_node),
                                   <<new_node, Get(g.node_labels, old_node)>>)
                       ELSE g.node_labels
        IN [g |-> [nodes |-> nodes1, edges |-> edges2, node_labels |-> labels1,
                   sources |-> sources1, root |-> root1],
            err |-> OK]

\* forget that drops every source of the node the name is bound to
forget_node_sources(g, source) ==
    IF Has(g.sources, source)
    THEN [g |-> [g EXCEPT !.sources =
                    SelectSeq(g.sources,
                              LAMBDA e : e[2] # Get(g.sources, source))],
          err |-> OK]
    ELSE [g |-> g, err |-> OK]

\* SGraph.forget
forget(g, source) ==
    IF Has(g.sources, source)
    THEN [g |-> [g EXCEPT !.sources = Pop(g.sources, source)], err |-> OK]
    ELSE [g |-> g, err |-> OK]

\* rename that does not look whether the new name is taken
rename_unchecked(g, old_source, new_source) ==
    IF Has(g.sources, old_source)
    THEN [g |-> [g EXCEPT !.sources =
                    Put(Pop(g.sources, old_source), new_source,
                        Get(g.sources, old_source))],
          err |-> OK]
    ELSE [g |-> g, err |-> OK]

\* SGraph.rename
rename(g, old_source, new_source) ==
    IF Has(g.sources, new_source) THEN [g |-> g, err |-> GraphError]
    ELSE IF Has(g.sources, old_source)
    THEN [g |-> [g EXCEPT !.sources =
                    Append(Pop(g.sources, old_source),
                           <<new_source, Get(g.sources, old_source)>>)],
          err |-> OK]
    ELSE [g |-> g, err |-> OK]

\* add_source that rebinds a name that is taken
add_source_overwrite(g, node, source) ==
    [g |-> [g EXCEPT !.sources = Put(g.sources, source, node)], err |-> OK]

\* SGraph.add_source
add_source(g, node, source) ==
    IF Has(g.sources, source) /\ Get(g.sources, source) # node
    THEN [g |-> g, err |-> GraphError]
    ELSE [g |-> [g EXCEPT !.sources = Put(g.sources, source, node)], err |-> OK]

\* SGraph.__init__ on arguments a; a.given holds the arguments that are not None
__init__(a) ==
    LET g == [nodes |-> IF "nodes" \in a.given THEN a.nodes ELSE {},
              edges |-> IF "edges" \in a.given THEN a.edges ELSE <<>>,
              node_labels |-> IF "node_labels" \in a.given THEN a.node_labels ELSE <<>>,
              sources |-> IF "sources" \in a.given THEN a.sources ELSE <<>>,
              root |-> a.root]
    IN IF ~(a.root = None \/ ("nodes" \in a.given /\ a.root \in a.nodes))
       THEN [g |-> EmptyGraph, err |-> AssertionError]
       ELSE IF ~(Keys(g.edges) \subseteq g.nodes)
       THEN [g |-> EmptyGraph, err |-> AssertionError]
       ELSE IF ~(Values(g.sources) \subseteq g.nodes)
       THEN [g |-> EmptyGraph, err |-> AssertionError]
       ELSE IF ~(Keys(g.node_labels) \subseteq g.nodes)
       THEN [g |-> EmptyGraph, err |-> AssertionError]
       ELSE [g |-> g, err |-> OK]

-----------------------------------------------------------------------------
(* Export to penman triples and the comparison through the smatch oracle *)

\* str(node), also of a root that is None
str(n) == IF n = None THEN "None" ELSE ToString(n)

\* one iteration of the loop over self.sources.items() of to_penman: a source
\* of a node that has a label is appended to the label, a source of any other
\* node is emitted as an instance triple of its own
SourceStep(item, nodes_to_add, triples) ==
    LET source == item[1]
        node == item[2]
        label == "<" \o source \o ">"
    IN IF Has(nodes_to_add, node)
       THEN [nodes_to_add |-> Put(nodes_to_add, node,
                                  Get(nodes_to_add, node) \o label),
             triples |-> triples]
       ELSE [nodes_to_add |-> nodes_to_add,
             triples |-> Append(triples, <<str(node), ":instance", label>>)]

\* the loop over self.sources.items() of to_penman, from item i on
RECURSIVE SourceLoop(_, _, _, _)
SourceLoop(sources, i, nodes_to_add, triples) ==
    IF i > Len(sources)
    THEN [nodes_to_add |-> nodes_to_add, triples |-> triples]
    ELSE LET s == SourceStep(sources[i], nodes_to_add, triples)
         IN SourceLoop(sources, i + 1, s.nodes_to_add, s.triples)

\* the loop over nodes_to_add.items() of to_penman
InstanceTriples(nodes_to_add) ==
    [i \in DOMAIN nodes_to_add |->
        <<str(nodes_to_add[i][1]), ":instance", nodes_to_add[i][2]>>]

\* the loop over self.edges.items() of to_penman, from origin i on
RECURSIVE EdgeTriples(_, _)
EdgeTriples(edges, i) ==
    IF i > Len(edges) THEN <<>>
    ELSE LET source == edges[i][1]
             es == edges[i][2]
         IN [j \in DOMAIN es |-> <<str(source), es[j][2], str(es[j][1])>>]
               \o EdgeTriples(edges, i + 1)

\* SGraph.to_penman: the triples and the top handed to penman.graph.Graph
to_penman(g) ==
    LET s == SourceLoop(g.sources, 1, g.node_labels, <<>>)
    IN [triples |-> s.triples \o InstanceTriples(s.nodes_to_add)
                       \o EdgeTriples(g.edges, 1),
        top |-> str(g.root)]

\* scores are counted in units of 1e-7
one == 10000000
allowed_error == 10

Exception == "Exception"

\* what penman.encode, get_amr_match and compute_f can do with two exports:
\* raise, or return an f-score
Scores == {0, 5000000, one - 11, one - 9, one, one + 9, one + 11}
OracleOutcomes ==
    {[err |-> OK, f |-> f] : f \in Scores} \cup {[err |-> Exception, f |-> 0]}

abs(x) == IF x < 0 THEN -x ELSE x

\* lines 115-118: the verdict on what the comparison gave
compare(oracle) ==
    IF oracle.err = OK THEN abs(oracle.f - one) <= allowed_error ELSE FALSE

\* __eq__ that lets the failure of the comparison through
eq_uncaught(self, other, oracle) ==
    IF oracle.err = OK
    THEN [val |-> abs(oracle.f - one) <= allowed_error, err |-> OK,
          g |-> to_penman(self), h |-> to_penman(other)]
    ELSE [val |-> FALSE, err |-> oracle.err,
          g |-> to_penman(self), h |-> to_penman(other)]

\* SGraph.__eq__ on two SGraphs, the comparison of the exports g and h ending
\* as oracle says
__eq__(self, other, oracle) ==
    LET g == to_penman(self)
        h == to_penman(other)
    IN [val |-> compare(oracle), err |-> OK, g |-> g, h |-> h]

-----------------------------------------------------------------------------
(* Instances and cells.  A heap h is [objs, store]; the cells of owner o   *)
(* are store[o].nodes, store[o].edges, store[o].node_labels and            *)
(* store[o].sources; objs[o].f names the owner of the cell field f of      *)
(* instance o points at.                                                   *)

Objs == {"A", "B", "R"}
Owners == Objs \cup {"new_self", "new_other"}

OwnCells(o, root) ==
    [nodes |-> o, edges |-> o, node_labels |-> o, sources |-> o, root |-> root]

EmptyCells == [nodes |-> {}, edges |-> <<>>, node_labels |-> <<>>, sources |-> <<>>]

\* the graph instance o reaches through its fields
Deref(h, o) ==
    [nodes |-> h.store[h.objs[o].nodes].nodes,
     edges |-> h.store[h.objs[o].edges].edges,
     node_labels |-> h.store[h.objs[o].node_labels].node_labels,
     sources |-> h.store[h.objs[o].sources].sources,
     root |-> h.objs[o].root]

\* in-place mutation of the containers of o, and assignment of o.root
Mutate(h, o, g) ==
    [objs |-> [h.objs EXCEPT ![o].root = g.root],
     store |-> [c \in DOMAIN h.store |->
        [nodes |-> IF h.objs[o].nodes = c THEN g.nodes ELSE h.store[c].nodes,
         edges |-> IF h.objs[o].edges = c THEN g.edges ELSE h.store[c].edges,
         node_labels |-> IF h.objs[o].node_labels = c THEN g.node_labels
                         ELSE h.store[c].node_labels,
         sources |-> IF h.objs[o].sources = c THEN g.sources
                     ELSE h.store[c].sources]]]

\* a new instance dst with fresh cells holding g
Alloc(h, dst, g) ==
    [objs |-> [h.objs EXCEPT ![dst] = OwnCells(dst, g.root)],
     store |-> [h.store EXCEPT ![dst] =
                  [nodes |-> g.nodes, edges |-> g.edges,
                   node_labels |-> g.node_labels, sources |-> g.sources]]]

\* copy.copy: a new instance whose fields point at the cells of src
shallowcopy(h, src, dst) ==
    [objs |-> [h.objs EXCEPT ![dst] = h.objs[src]], store |-> h.store]

\* copy.deepcopy: a new instance with cells of its own
deepcopy(h, src, dst) == Alloc(h, dst, Deref(h, src))

\* a method call on instance o that left graph res.g behind and ended res.err
Call(h, o, res) == [h |-> Mutate(h, o, res.g), err |-> res.err]

\* __add__, lines 189-191: every node of other gets a fresh identifier
RECURSIVE RenumberLoop(_, _, _, _)
RenumberLoop(r, order, i, new_node) ==
    IF r.err # OK \/ i > Len(order) THEN r
    ELSE RenumberLoop(
            Call(r.h, "new_other",
                 replace_node(Deref(r.h, "new_other"), order[i], new_node)),
            order, i + 1, new_node + 1)

\* __add__, lines 193-195: the shared sources are unified
RECURSIVE UnifyLoop(_, _, _, _, _)
UnifyLoop(r, self, other, srcs, i) ==
    IF r.err # OK \/ i > Len(srcs) THEN r
    ELSE IF Has(Deref(r.h, other).sources, srcs[i])
    THEN UnifyLoop(
            Call(r.h, "new_other",
                 replace_node(Deref(r.h, "new_other"),
                              Get(Deref(r.h, "new_other").sources, srcs[i]),
                              Get(Deref(r.h, self).sources, srcs[i]))),
            self, other, srcs, i + 1)
    ELSE UnifyLoop(r, self, other, srcs, i + 1)

\* the edge lists of e replace those of d: new_self.edges.update(new_other.edges)
edges_update(d, e, i) == Update(d, e)

\* __add__, lines 199-203: the edge lists of e are appended to those of d
RECURSIVE AddEdges(_, _, _)
AddEdges(d, e, i) ==
    IF i > Len(e) THEN d
    ELSE AddEdges(
            IF Has(d, e[i][1])
            THEN Put(d, e[i][1], Get(d, e[i][1]) \o e[i][2])
            ELSE Put(d, e[i][1], e[i][2]),
            e, i + 1)

\* SGraph.__add__ (merge) of instances self and other in heap h0; order is the
\* order in which the set other.nodes is iterated.  The result is instance
\* "new_self" of the heap returned.
__add__(h0, self, other, order) ==
    LET h1 == deepcopy(h0, self, "new_self")
        h2 == deepcopy(h1, other, "new_other")
        U == Deref(h2, self).nodes \cup Deref(h2, other).nodes
    IN IF U = {} THEN [h |-> h2, err |-> ValueError]
       ELSE
         LET r1 == RenumberLoop([h |-> h2, err |-> OK], order, 1, SetMax(U) + 1)
             r2 == UnifyLoop(r1, self, other, KeySeq(Deref(r1.h, self).sources), 1)
         IN IF r2.err # OK THEN r2
            ELSE
              LET no == Deref(r2.h, "new_other")
                  ns == Deref(r2.h, "new_self")
                  \* new_self.nodes = ... binds the field to a new set
                  h3 == [objs |-> [r2.h.objs EXCEPT !["new_self"].nodes = "new_self"],
                         store |-> r2.h.store]
                  g == [nodes |-> Deref(r2.h, self).nodes \cup no.nodes,
                        edges |-> AddEdges(ns.edges, no.edges, 1),
                        sources |-> Update(ns.sources, no.sources),
                        node_labels |-> Update(ns.node_labels, no.node_labels),
                        root |-> ns.root]
              IN [h |-> Mutate(h3, "new_self", g), err |-> OK]

-----------------------------------------------------------------------------
(* Hand-built graphs *)

\* dicts from source names to nodes of N
SourceDicts(N) ==
    {d \in UNION {[1..k -> SeedNames \X N] : k \in 0..Cardinality(SeedNames)} :
        \A i, j \in DOMAIN d : i # j => d[i][1] # d[j][1]}

\* the same with the names inserted in the order of SeedOrder
OrderedSourceDicts(N) ==
    {[i \in DOMAIN SelectSeq(SeedOrder, LAMBDA s : f[s] # None) |->
        <<SelectSeq(SeedOrder, LAMBDA s : f[s] # None)[i],
          f[SelectSeq(SeedOrder, LAMBDA s : f[s] # None)[i]]>>] :
      f \in [SeedNames -> N \cup {None}]}

\* edges, node labels and root of the hand-built graphs on nodes 1..k
Structures(k) ==
    {[edges |-> <<>>, node_labels |-> <<>>, root |-> None]}
    \cup (IF k = 0 THEN {} ELSE
          {[edges |-> << <<1, << <<k, "ARG0">> >> >> >>,
            node_labels |-> << <<1, "see">> >>, root |-> 1],
           [edges |-> IF k > 1 THEN << <<k, << <<1, "ARG0">>, <<k, "ARG1">> >> >> >>
                      ELSE <<>>,
            node_labels |-> << <<k, "dog">> >>, root |-> k]})

SeedGraphs ==
    UNION {{[nodes |-> 1..k, edges |-> st.edges, node_labels |-> st.node_labels,
             sources |-> sd, root |-> st.root] :
              st \in Structures(k), sd \in SourceDicts(1..k)} : k \in 0..MaxNode}

OrderedSeedGraphs ==
    {g \in SeedGraphs : g.sources \in OrderedSourceDicts(g.nodes)}

NoArgs ==
    [given |-> {}, nodes |-> {}, edges |-> <<>>, node_labels |-> <<>>,
     sources |-> <<>>, root |-> None]

NoCall == [op |-> "none", obj |-> "-", other |-> "-", outcome |-> OK]

NoExport == [triples |-> <<>>, top |-> ""]

NoRet == [val |-> FALSE, oracle |-> [err |-> OK, f |-> 0],
          g |-> NoExport, h |-> NoExport]

Threads == {1, 2}

\* the instances a call of __add__ creates
Locals == Owners \ Objs

NoLoc == [objs |-> [o \in Locals |-> OwnCells(o, None)],
          store |-> [o \in Locals |-> EmptyCells]]

\* a thread that is in no call
Idle ==
    [pc |-> "idle", op |-> "none", self |-> "-", other |-> "-",
     order |-> <<>>, i |-> 0, new_node |-> 0, srcs |-> <<>>, loc |-> NoLoc,
     subject |-> "-", nodes_to_add |-> <<>>, triples |-> <<>>,
     g |-> NoExport, h |-> NoExport, oracle |-> NoRet.oracle,
     res |-> EmptyGraph, val |-> FALSE, err |-> OK]

-----------------------------------------------------------------------------
(* The state machine: callers holding the instances A, B and R *)

Cur == [objs |-> objs, store |-> store]

\* the graph of instance o now, and after the step
G(o) == Deref(Cur, o)
GNext(o) == Deref([objs |-> objs', store |-> store'], o)

\* node identifiers a caller may pass for instance o
Ids(o) == G(o).nodes \cup (1..MaxId)

\* the identifiers the callers of the state machine pass for a node that is to
\* exist: the nodes of o and one more
CallIds(o) == G(o).nodes \cup {MaxId}

HeapOf(a, b) ==
    Alloc(Alloc([objs |-> [o \in Objs |-> OwnCells(o, None)],
                 store |-> [o \in Objs |-> EmptyCells]], "A", a), "B", b)

\* a mutating method of instance o ran, left res.g and ended res.err
Apply(o, op, res) ==
    \E r \in {Call(Cur, o, res)} :
       /\ objs' = r.h.objs
       /\ store' = r.h.store
       /\ last' = [op |-> op, obj |-> o, other |-> "-", outcome |-> r.err]
       /\ UNCHANGED <<live, args, ret, thr>>

AddSource(o, n, s) ==
    /\ o \in live
    /\ Apply(o, "add_source", add_source(G(o), n, s))

Forget(o, s) ==
    /\ o \in live
    /\ Apply(o, "forget", forget(G(o), s))

Rename(o, old, new) ==
    /\ o \in live
    /\ Apply(o, "rename", rename(G(o), old, new))

ReplaceNode(o, old, new) ==
    /\ o \in live
    /\ Apply(o, "replace_node", replace_node(G(o), old, new))

\* the cells of the result belong to R from now on
Relocate(cells) ==
    [nodes |-> IF cells.nodes = "new_self" THEN "R" ELSE cells.nodes,
     edges |-> IF cells.edges = "new_self" THEN "R" ELSE cells.edges,
     node_labels |-> IF cells.node_labels = "new_self" THEN "R" ELSE cells.node_labels,
     sources |-> IF cells.sources = "new_self" THEN "R" ELSE cells.sources,
     root |-> cells.root]

\* R = x + y
Merge(x, y, order) ==
    /\ x \in live /\ y \in live
    /\ LET h0 == [objs |-> [o \in Owners |->
                              IF o \in Objs THEN objs[o] ELSE OwnCells(o, None)],
                  store |-> [o \in Owners |->
                              IF o \in Objs THEN store[o] ELSE EmptyCells]]
       IN \E r \in {__add__(h0, x, y, order)} :
          /\ objs' = [o \in Objs |->
                        IF o = "R" /\ r.err = OK
                        THEN Relocate(r.h.objs["new_self"]) ELSE r.h.objs[o]]
          /\ store' = [o \in Objs |->
                        IF o = "R" /\ r.err = OK
                        THEN r.h.store["new_self"] ELSE r.h.store[o]]
          /\ live' = IF r.err = OK THEN live \cup {"R"} ELSE live
          /\ last' = [op |-> "merge", obj |-> x, other |-> y, outcome |-> r.err]
          /\ UNCHANGED <<args, ret, thr>>

Operands == {"A", "B"}

\* one caller owning one graph and calling its in-place operations
Init ==
    /\ \E a \in SeedGraphs :
         objs = HeapOf(a, EmptyGraph).objs /\ store = HeapOf(a, EmptyGraph).store
    /\ live = {"A"}
    /\ args = NoArgs
    /\ last = NoCall
    /\ ret = NoRet
    /\ thr = [t \in Threads |-> Idle]

Next ==
    \/ \E n \in CallIds("A"), s \in SeedNames : AddSource("A", n, s)
    \/ \E s \in SourceNames : Forget("A", s)
    \/ \E old \in SourceNames, new \in SourceNames : Rename("A", old, new)
    \/ \E old \in CallIds("A"), new \in Ids("A") : ReplaceNode("A", old, new)

Spec == Init /\ [][Next]_vars

\* a hand-built right operand whose node lies far from those of the others
FarGraph ==
    [nodes |-> {10}, edges |-> <<>>, node_labels |-> << <<10, "dog">> >>,
     sources |-> << <<"S", 10>> >>, root |-> 10]

\* a caller merging two graphs and then working on the result
InitMerge ==
    /\ \E a \in SeedGraphs, b \in OrderedSeedGraphs \cup {FarGraph} :
         objs = HeapOf(a, b).objs /\ store = HeapOf(a, b).store
    /\ live = Operands
    /\ args = NoArgs
    /\ last = NoCall
    /\ ret = NoRet
    /\ thr = [t \in Threads |-> Idle]

NextMerge ==
    \/ /\ "R" \notin live
       /\ \E y \in Operands : \E order \in Perms(G(y).nodes) : Merge("A", y, order)
    \/ /\ last.op = "merge"
       /\ \/ \E n \in CallIds("R"), s \in SourceNames : AddSource("R", n, s)
          \/ \E s \in SourceNames : Forget("R", s)
          \/ \E old \in SourceNames, new \in SourceNames : Rename("R", old, new)
          \/ \E old \in CallIds("R"), new \in Ids("R") : ReplaceNode("R", old, new)

SpecMerge == InitMerge /\ [][NextMerge]_vars

\* o.to_penman()
ToPenman(o) ==
    /\ o \in live
    /\ ret' = [NoRet EXCEPT !.g = to_penman(G(o))]
    /\ last' = [op |-> "to_penman", obj |-> o, other |-> "-", outcome |-> OK]
    /\ UNCHANGED <<objs, store, live, args, thr>>

\* x == y, the comparison of the two exports ending as oracle says
Eq(x, y, oracle) ==
    /\ x \in live /\ y \in live
    /\ \E r \in {__eq__(G(x), G(y), oracle)} :
         /\ ret' = [val |-> r.val, oracle |-> oracle, g |-> r.g, h |-> r.h]
         /\ last' = [op |-> "__eq__", obj |-> x, other |-> y, outcome |-> r.err]
    /\ UNCHANGED <<objs, store, live, args, thr>>

\* a caller exporting or comparing two graphs, once
NextExport ==
    /\ last.op = "none"
    /\ \/ \E o \in Operands : ToPenman(o)
       \/ \E y \in Operands, oracle \in OracleOutcomes : Eq("A", y, oracle)

SpecExport == InitMerge /\ [][NextExport]_vars

-----------------------------------------------------------------------------
(* Threads calling __add__, to_penman and __eq__ on the shared instances A  *)
(* and B.  A thread takes one step at a time; a step reads the operands in  *)
(* the shared heap and works on the thread's own instances and locals.      *)

\* the heap thread t sees: the shared instances and its own
View(t) ==
    [objs |-> [o \in Owners |-> IF o \in Objs THEN objs[o] ELSE thr[t].loc.objs[o]],
     store |-> [o \in Owners |-> IF o \in Objs THEN store[o] ELSE thr[t].loc.store[o]]]

\* thread t has left heap h behind and is now in state th
Commit(t, h, th) ==
    /\ objs' = [o \in Objs |-> h.objs[o]]
    /\ store' = [o \in Objs |-> h.store[o]]
    /\ thr' = [thr EXCEPT ![t] =
                 [th EXCEPT !.loc = [objs |-> [o \in Locals |-> h.objs[o]],
                                     store |-> [o \in Locals |-> h.store[o]]]]]
    /\ UNCHANGED <<live, args, last, ret>>

\* thread t calls self + other, self.to_penman() or self == other
Start(t, op, self, other) ==
    /\ thr[t].pc = "idle"
    /\ Commit(t, View(t),
              [thr[t] EXCEPT !.op = op, !.self = self, !.other = other,
                             !.subject = self,
                             !.pc = IF op = "merge" THEN "copy_self" ELSE "p_copy"])

\* line 184: new_self = deepcopy(self)
CopySelf(t) ==
    /\ thr[t].pc = "copy_self"
    /\ Commit(t, deepcopy(View(t), thr[t].self, "new_self"),
              [thr[t] EXCEPT !.pc = "copy_other"])

\* line 185: new_other = deepcopy(other)
CopyOther(t) ==
    /\ thr[t].pc = "copy_other"
    /\ Commit(t, deepcopy(View(t), thr[t].other, "new_other"),
              [thr[t] EXCEPT !.pc = "max"])

\* line 188 and the start of the loop of line 189
NewNode(t) ==
    /\ thr[t].pc = "max"
    /\ LET U == G(thr[t].self).nodes \cup G(thr[t].other).nodes
       IN IF U = {}
          THEN Commit(t, View(t), [thr[t] EXCEPT !.pc = "done", !.err = ValueError])
          ELSE \E order \in Perms(G(thr[t].other).nodes) :
                 Commit(t, View(t),
                        [thr[t] EXCEPT !.pc = "renumber", !.order = order,
                                       !.i = 1, !.new_node = SetMax(U) + 1])

\* lines 189-191, one iteration; after the last one the loop of line 193 starts
Renumber(t) ==
    /\ thr[t].pc = "renumber"
    /\ IF thr[t].i > Len(thr[t].order)
       THEN Commit(t, View(t),
                   [thr[t] EXCEPT !.pc = "unify", !.i = 1,
                                  !.srcs = KeySeq(G(thr[t].self).sources)])
       ELSE \E r \in {Call(View(t), "new_other",
                            replace_node(Deref(View(t), "new_other"),
                                         thr[t].order[thr[t].i],
                                         thr[t].new_node))} :
              Commit(t, r.h,
                     IF r.err # OK
                     THEN [thr[t] EXCEPT !.pc = "done", !.err = r.err]
                     ELSE [thr[t] EXCEPT !.i = @ + 1, !.new_node = @ + 1])

\* lines 193-195, one iteration
Unify(t) ==
    /\ thr[t].pc = "unify"
    /\ IF thr[t].i > Len(thr[t].srcs)
       THEN Commit(t, View(t), [thr[t] EXCEPT !.pc = "union"])
       ELSE IF ~Has(G(thr[t].other).sources, thr[t].srcs[thr[t].i])
       THEN Commit(t, View(t), [thr[t] EXCEPT !.i = @ + 1])
       ELSE \E r \in {Call(View(t), "new_other",
                            replace_node(
                               Deref(View(t), "new_other"),
                               Get(Deref(View(t), "new_other").sources,
                                   thr[t].srcs[thr[t].i]),
                               Get(G(thr[t].self).sources,
                                   thr[t].srcs[thr[t].i])))} :
              Commit(t, r.h,
                     IF r.err # OK
                     THEN [thr[t] EXCEPT !.pc = "done", !.err = r.err]
                     ELSE [thr[t] EXCEPT !.i = @ + 1])

\* thread t assigns or updates fields of its new_self, leaving graph g
Update_new_self(t, h, g, pc) ==
    Commit(t, Mutate(h, "new_self", g),
           IF pc = "done"
           THEN [thr[t] EXCEPT !.pc = pc,
                               !.res = Deref(Mutate(h, "new_self", g), "new_self")]
           ELSE [thr[t] EXCEPT !.pc = pc])

\* line 198: new_self.nodes = self.nodes.union(new_other.nodes)
Union(t) ==
    /\ thr[t].pc = "union"
    /\ LET h == View(t)
           h3 == [objs |-> [h.objs EXCEPT !["new_self"].nodes = "new_self"],
                  store |-> h.store]
       IN Update_new_self(t, h3,
             [Deref(h, "new_self") EXCEPT
                 !.nodes = G(thr[t].self).nodes \cup Deref(h, "new_other").nodes],
             "edges")

\* lines 199-203
Edges(t) ==
    /\ thr[t].pc = "edges"
    /\ Update_new_self(t, View(t),
          [Deref(View(t), "new_self") EXCEPT
              !.edges = AddEdges(@, Deref(View(t), "new_other").edges, 1)],
          "sources")

\* line 205
Sources(t) ==
    /\ thr[t].pc = "sources"
    /\ Update_new_self(t, View(t),
          [Deref(View(t), "new_self") EXCEPT
              !.sources = Update(@, Deref(View(t), "new_other").sources)],
          "labels")

\* lines 206-207
Labels(t) ==
    /\ thr[t].pc = "labels"
    /\ Update_new_self(t, View(t),
          [Deref(View(t), "new_self") EXCEPT
              !.node_labels = Update(@, Deref(View(t), "new_other").node_labels)],
          "done")

\* lines 292-293: triples = [], nodes_to_add = copy.copy(self.node_labels)
PCopy(t) ==
    /\ thr[t].pc = "p_copy"
    /\ Commit(t, View(t),
              [thr[t] EXCEPT !.pc = "p_sources", !.i = 1, !.triples = <<>>,
                             !.nodes_to_add = G(thr[t].subject).node_labels])

\* lines 295-301, one iteration
PSources(t) ==
    /\ thr[t].pc = "p_sources"
    /\ IF thr[t].i > Len(G(thr[t].subject).sources)
       THEN Commit(t, View(t), [thr[t] EXCEPT !.pc = "p_instances"])
       ELSE \E s \in {SourceStep(G(thr[t].subject).sources[thr[t].i],
                                 thr[t].nodes_to_add, thr[t].triples)} :
              Commit(t, View(t),
                     [thr[t] EXCEPT !.i = @ + 1, !.triples = s.triples,
                                    !.nodes_to_add = s.nodes_to_add])

\* lines 302-303
PInstances(t) ==
    /\ thr[t].pc = "p_instances"
    /\ Commit(t, View(t),
              [thr[t] EXCEPT !.pc = "p_edges",
                             !.triples = @ \o InstanceTriples(thr[t].nodes_to_add)])

\* lines 305-307
PEdges(t) ==
    /\ thr[t].pc = "p_edges"
    /\ Commit(t, View(t),
              [thr[t] EXCEPT !.pc = "p_top",
                             !.triples = @ \o EdgeTriples(G(thr[t].subject).edges, 1)])

\* lines 309-310; in __eq__ (lines 113-114) the export of other follows that of
\* self and the comparison follows both
PTop(t) ==
    /\ thr[t].pc = "p_top"
    /\ \E p \in {[triples |-> thr[t].triples,
                   top |-> str(G(thr[t].subject).root)]} :
         Commit(t, View(t),
                IF thr[t].op = "to_penman"
                THEN [thr[t] EXCEPT !.pc = "done", !.g = p]
                ELSE IF thr[t].g = NoExport
                THEN [thr[t] EXCEPT !.pc = "p_copy", !.g = p,
                                    !.subject = thr[t].other]
                ELSE [thr[t] EXCEPT !.pc = "score", !.h = p])

\* lines 115-118: the comparison ends as oracle says
Score(t, oracle) ==
    /\ thr[t].pc = "score"
    /\ Commit(t, View(t),
              [thr[t] EXCEPT !.pc = "done", !.oracle = oracle,
                             !.val = compare(oracle)])

\* the comparison fails, or scores 0.0 or 1.0
ThreadOracle == {o \in OracleOutcomes : o.f \in {0, one}}

Calls ==
    {<<"merge", "A", "B">>, <<"merge", "B", "A">>,
     <<"to_penman", "B", "-">>, <<"__eq__", "A", "B">>}

NextThreads ==
    \E t \in Threads :
       \/ \E c \in Calls : Start(t, c[1], c[2], c[3])
       \/ CopySelf(t)
       \/ CopyOther(t)
       \/ NewNode(t)
       \/ Renumber(t)
       \/ Unify(t)
       \/ Union(t)
       \/ Edges(t)
       \/ Sources(t)
       \/ Labels(t)
       \/ PCopy(t)
       \/ PSources(t)
       \/ PInstances(t)
       \/ PEdges(t)
       \/ PTop(t)
       \/ \E oracle \in ThreadOracle : Score(t, oracle)

\* the graphs the threads share: rooted, every node holding a source
ThreadSeeds ==
    {g \in OrderedSeedGraphs :
        g.root # None /\ g.nodes # {} /\ g.nodes \subseteq Values(g.sources)}

InitThreads ==
    /\ \E a \in ThreadSeeds, b \in ThreadSeeds :
         objs = HeapOf(a, b).objs /\ store = HeapOf(a, b).store
    /\ live = Operands
    /\ args = NoArgs
    /\ last = NoCall
    /\ ret = NoRet
    /\ thr = [t \in Threads |-> Idle]

SpecThreads == InitThreads /\ [][NextThreads]_vars

\* a caller constructing a graph from arguments of its own making
Fields == {"nodes", "edges", "node_labels", "sources"}

CtorArgs ==
    {a \in [given : {Fields, Fields \ {"nodes"}, {}},
            nodes : SUBSET (1..MaxNode),
            edges : {<<>>} \cup {<< <<o, << <<t, "ARG0">> >> >> >> :
                                    o \in 1..MaxId, t \in 1..MaxId},
            node_labels : {<<>>} \cup {<< <<n, "see">> >> : n \in 1..MaxId},
            sources : {<<>>} \cup {<< <<"S", n>> >> : n \in 1..MaxId},
            root : {None} \cup (1..MaxId)] :
        /\ "nodes" \notin a.given => a.nodes = {}
        /\ "edges" \notin a.given => a.edges = <<>>
        /\ "node_labels" \notin a.given => a.node_labels = <<>>
        /\ "sources" \notin a.given => a.sources = <<>>}

InitCtor ==
    /\ args \in CtorArgs
    /\ objs = [o \in Objs |-> OwnCells(o, None)]
    /\ store = [o \in Objs |-> EmptyCells]
    /\ live = {}
    /\ last = NoCall
    /\ ret = NoRet
    /\ thr = [t \in Threads |-> Idle]

\* A = SGraph(nodes, edges, node_labels, sources, root)
Construct ==
    /\ last.op = "none"
    /\ \E r \in {__init__(args)} :
         /\ IF r.err = OK
            THEN \E h \in {Alloc(Cur, "A", r.g)} :
                    objs' = h.objs /\ store' = h.store /\ live' = {"A"}
            ELSE UNCHANGED <<objs, store, live>>
         /\ last' = [op |-> "__init__", obj |-> "A", other |-> "-", outcome |-> r.err]
    /\ UNCHANGED <<args, ret, thr>>

NextCtor == Construct

SpecCtor == InitCtor /\ [][NextCtor]_vars

-----------------------------------------------------------------------------
(* Properties *)

\* a graph with its dicts as mappings, insertion order forgotten
AsMaps(g) ==
    [nodes |-> g.nodes, edges |-> AsMap(g.edges), node_labels |-> AsMap(g.node_labels),
     sources |-> AsMap(g.sources), root |-> g.root]

\* g with every occurrence of old replaced by new, dicts as mappings
Subst(g, old, new) ==
    LET sub(x) == IF x = old THEN new ELSE x
    IN [nodes |-> {sub(n) : n \in g.nodes},
        edges |-> {<<sub(e[1]),
                     [j \in DOMAIN e[2] |-> <<sub(e[2][j][1]), e[2][j][2]>>]>> :
                      e \in AsMap(g.edges)},
        node_labels |-> {<<sub(e[1]), e[2]>> : e \in AsMap(g.node_labels)},
        sources |-> {<<e[1], sub(e[2])>> : e \in AsMap(g.sources)},
        root |-> sub(g.root)]

\* the graph the constructor arguments describe
ArgsGraph(a) ==
    [nodes |-> a.nodes, edges |-> a.edges, node_labels |-> a.node_labels,
     sources |-> a.sources, root |-> a.root]

AllValid == \A o \in live : Valid(G(o))

\* C1: from graphs satisfying invariants 1-3, every call of add_source, forget,
\* rename, replace_node or merge that completes without raising leaves every
\* graph satisfying them.
C1_InvariantsPreserved ==
    [][(AllValid /\ last'.outcome = OK) => (\A o \in live' : Valid(GNext(o)))]_vars

\* C2: construction succeeds exactly when the arguments satisfy invariants 1-3,
\* and then returns the graph they describe; otherwise no graph is returned.
C2_ConstructionValidates ==
    last.op = "__init__" =>
        /\ (last.outcome = OK) <=> Valid(ArgsGraph(args))
        /\ last.outcome = OK =>
              "A" \in live /\ G("A") = ArgsGraph(args) /\ Valid(G("A"))
        /\ last.outcome # OK => live = {}

\* C3: a merge, returning or raising, leaves both operands as they were, and so
\* does every later in-place operation on the result.
C3_MergeNeverMutatesOperands ==
    [][(last'.op = "merge" \/ last'.obj = "R") =>
          \A o \in Operands : GNext(o) = G(o) /\ objs'[o] = objs[o]]_vars

C3_Witness ==
    /\ last.obj = "R" /\ last.op = "replace_node" /\ last.outcome = OK
    /\ Keys(G("A").sources) \cap Keys(G("B").sources) # {}
    /\ G("R").edges # <<>>
    /\ G("R").nodes # G("A").nodes

\* C4: merge of valid graphs never fails in the identifier substitution
\* (replace_node is never called with a target that is present, nor with a node
\* that is absent).
C4_MergeNeverCollides ==
    (last.op = "merge" /\ Valid(G(last.obj)) /\ Valid(G(last.other))) =>
        last.outcome \notin {AssertionError, KeyError}

\* C5: in the result of merge(A, B) every source of A is bound as in A, and the
\* label B gives to the holder of a shared source sits on A's holder of it.
C5_SharedSourcesUnifyOntoLeft ==
    (last.op = "merge" /\ last.outcome = OK) =>
        LET a == G(last.obj)
            b == G(last.other)
            r == G("R")
        IN /\ \A t \in Keys(a.sources) :
                Has(r.sources, t) /\ Get(r.sources, t) = Get(a.sources, t)
           /\ \A s \in Keys(a.sources) \cap Keys(b.sources) :
                Has(b.node_labels, Get(b.sources, s)) =>
                    get_node_label(r, Get(a.sources, s)) =
                        Get(b.node_labels, Get(b.sources, s))

\* C6: merge(A, B) returns a graph whose root is A's root, for all A and B.
C6_MergeKeepsLeftRoot ==
    last.op = "merge" =>
        /\ last.outcome = OK
        /\ "R" \in live
        /\ G("R").root = G(last.obj).root

\* C7: merge(A, empty) returns a graph with the nodes, edges, labels, sources
\* and root of A, for every A.
C7_EmptyIsRightIdentity ==
    (last.op = "merge" /\ G(last.other).nodes = {}) =>
        /\ last.outcome = OK
        /\ AsMaps(G("R")) = AsMaps(G(last.obj))

\* C8: replace_node(old, new) with old present and new absent replaces every
\* occurrence of old by new and changes nothing else (edge lists keep their
\* order and labels); with new present it raises and changes nothing.
C8_ReplaceNodeSubstitutes ==
    \A old \in Ids("A"), new \in Ids("A") :
        LET g == G("A")
            r == replace_node(g, old, new)
        IN /\ (old \in g.nodes /\ new \notin g.nodes) =>
                 r.err = OK /\ AsMaps(r.g) = Subst(g, old, new)
           /\ new \in g.nodes => r.err = AssertionError /\ r.g = g

C8_Witness ==
    /\ last.op = "replace_node" /\ last.outcome = OK
    /\ \E i \in DOMAIN G("A").edges : Len(G("A").edges[i][2]) >= 2
    /\ G("A").sources # <<>>
    /\ G("A").root # None

\* C9: add_source(n, s) with s unbound makes the source lookup of n include s;
\* with s bound to n it changes nothing; with s bound to another node it raises
\* GraphError and the binding of s stays.
C9_AddSource ==
    \A n \in Ids("A"), s \in SourceNames :
        LET g == G("A")
            r == add_source(g, n, s)
            found == get_sources_for_node(r.g, n)
        IN /\ ~Has(g.sources, s) =>
                 r.err = OK /\ \E i \in DOMAIN found : found[i] = s
           /\ (Has(g.sources, s) /\ Get(g.sources, s) = n) =>
                 r.err = OK /\ r.g = g
           /\ (Has(g.sources, s) /\ Get(g.sources, s) # n) =>
                 r.err = GraphError /\ r.g = g

C9_Witness ==
    /\ last.op = "add_source" /\ last.outcome = OK
    /\ Len(G("A").sources) >= 2
    /\ \E n \in G("A").nodes : Len(get_sources_for_node(G("A"), n)) >= 2

\* C10: rename(old, new) then rename(new, old) restores the source mapping and
\* touches nothing else; rename raises GraphError whenever new is bound, and is
\* a no-op when old is absent and new is free.
C10_RenameRoundTrip ==
    \A old \in SourceNames, new \in SourceNames :
        LET g == G("A")
            r1 == rename(g, old, new)
            r2 == rename(r1.g, new, old)
        IN /\ Has(g.sources, new) => r1.err = GraphError /\ r1.g = g
           /\ (~Has(g.sources, new) /\ ~Has(g.sources, old)) =>
                 r1.err = OK /\ r1.g = g
           /\ r1.err = OK =>
                 /\ r2.err = OK
                 /\ AsMaps(r2.g) = AsMaps(g)
                 /\ Has(g.sources, old) =>
                       /\ AsMap(r1.g.sources) =
                            (AsMap(g.sources) \ {<<old, Get(g.sources, old)>>})
                              \cup {<<new, Get(g.sources, old)>>}
                       /\ [r1.g EXCEPT !.sources = g.sources] = g

C10_Witness ==
    /\ last.op = "rename" /\ last.outcome = OK
    /\ Has(G("A").sources, "X")
    /\ Len(G("A").sources) >= 2

\* C11: forget(name) removes the binding of name and nothing else (nodes, edges,
\* node labels, root and the other bindings stay); with name unbound the graph
\* is left as it was, without an error; a second forget(name) changes nothing.
C11_ForgetRemovesOnlyName ==
    \A s \in SourceNames :
        LET g == G("A")
            r1 == forget(g, s)
            r2 == forget(r1.g, s)
        IN /\ r1.err = OK
           /\ [r1.g EXCEPT !.sources = g.sources] = g
           /\ AsMap(r1.g.sources) = {e \in AsMap(g.sources) : e[1] # s}
           /\ ~Has(g.sources, s) => r1.g = g
           /\ r2.err = OK /\ r2.g = r1.g

C11_Witness ==
    /\ last.op = "forget" /\ last.outcome = OK
    /\ \E s \in SeedNames : ~Has(G("A").sources, s)
    /\ Has(G("A").sources, "X")
    /\ \E n \in G("A").nodes : Len(get_sources_for_node(G("A"), n)) >= 2
    /\ G("A").edges # <<>> /\ G("A").node_labels # <<>>

\* C12: a == b on two graphs returns without raising, and returns true exactly
\* when the comparison of the two exports returned a score within the tolerance
\* of 1.0; when the comparison fails it returns false.
C12_EqualIffScoreWithinTolerance ==
    last.op = "__eq__" =>
        /\ last.outcome = OK
        /\ ret.val <=> /\ ret.oracle.err = OK
                       /\ ret.oracle.f >= one - allowed_error
                       /\ ret.oracle.f <= one + allowed_error
        /\ ret.oracle.err # OK => ret.val = FALSE

C12_Witness ==
    /\ last.op = "__eq__" /\ last.obj = "A" /\ last.other = "B"
    /\ ret.oracle.err = Exception
    /\ ret.val = FALSE /\ last.outcome = OK
    /\ G("A").root = None /\ G("B").sources # <<>>

\* the <source> suffixes of the names in names, from the i-th on
RECURSIVE Annotation(_, _)
Annotation(names, i) ==
    IF i > Len(names) THEN ""
    ELSE "<" \o names[i] \o ">" \o Annotation(names, i + 1)

\* the adjacency entries of edges as (origin, label, target), in iteration
\* order, from origin i on
RECURSIVE Adjacency(_, _)
Adjacency(edges, i) ==
    IF i > Len(edges) THEN <<>>
    ELSE [j \in DOMAIN edges[i][2] |->
             <<str(edges[i][1]), edges[i][2][j][2], str(edges[i][2][j][1])>>]
           \o Adjacency(edges, i + 1)

\* C13: to_penman of a valid graph emits one instance triple for each node that
\* has a label or a source and none for the other nodes; the instance label is
\* the node's label (if any) followed by the <source> suffix of each of its
\* sources; the edge triples are the adjacency entries in the iteration order
\* of edges; the top is the root.
C13_ExportTriples ==
    (last.op = "to_penman" /\ Valid(G(last.obj))) =>
        LET g == G(last.obj)
            instances == SelectSeq(ret.g.triples, LAMBDA t : t[2] = ":instance")
            others == SelectSeq(ret.g.triples, LAMBDA t : t[2] # ":instance")
            of(n) == {i \in DOMAIN instances : instances[i][1] = str(n)}
        IN /\ \A i \in DOMAIN instances :
                \E n \in g.nodes : instances[i][1] = str(n)
           /\ \A n \in g.nodes :
                IF Has(g.node_labels, n) \/ get_sources_for_node(g, n) # <<>>
                THEN /\ Cardinality(of(n)) = 1
                     /\ \A i \in of(n) :
                          instances[i][3] =
                             get_node_label(g, n) \o
                             Annotation(get_sources_for_node(g, n), 1)
                ELSE of(n) = {}
           /\ others = Adjacency(g.edges, 1)
           /\ ret.g.top = str(g.root)

\* what the call of thread t gives when no other call runs: its outcome, the
\* graph returned, the exports made and the verdict
Alone(t) ==
    LET th == thr[t]
        h0 == [objs |-> [o \in Owners |->
                           IF o \in Objs THEN objs[o] ELSE OwnCells(o, None)],
               store |-> [o \in Owners |->
                           IF o \in Objs THEN store[o] ELSE EmptyCells]]
    IN IF th.op = "merge"
       THEN LET r == __add__(h0, th.self, th.other, th.order)
            IN [err |-> r.err,
                res |-> IF r.err = OK THEN Deref(r.h, "new_self") ELSE EmptyGraph,
                g |-> NoExport, h |-> NoExport, val |-> FALSE]
       ELSE IF th.op = "to_penman"
       THEN [err |-> OK, res |-> EmptyGraph, g |-> to_penman(G(th.self)),
             h |-> NoExport, val |-> FALSE]
       ELSE LET r == __eq__(G(th.self), G(th.other), th.oracle)
            IN [err |-> r.err, res |-> EmptyGraph, g |-> r.g, h |-> r.h,
                val |-> r.val]

\* what the finished call of thread t gave
Given(t) ==
    [err |-> thr[t].err, res |-> thr[t].res, g |-> thr[t].g, h |-> thr[t].h,
     val |-> thr[t].val]

\* C14: threads that run merge, to_penman and __eq__ on the same operands in
\* any interleaving of their steps never change an operand (neither its graph
\* nor the containers its fields point at), and every call that has finished
\* gave what it gives when it runs alone.
C14_ThreadsLeaveOperandsAlone ==
    /\ [](\A t \in Threads : thr[t].pc = "done" => Given(t) = Alone(t))
    /\ [][\A o \in Operands : GNext(o) = G(o) /\ objs'[o] = objs[o]]_vars

C14_Witness ==
    /\ thr[1].op = "merge" /\ thr[1].pc = "labels"
    /\ Deref(View(1), "new_other").nodes \cap G(thr[1].self).nodes # {}
    /\ thr[2].op = "__eq__" /\ thr[2].pc = "score"
    /\ G("A").edges # <<>> /\ G("B").edges # <<>>

\* the names bound in both a and b, in the order of a.sources
SharedNames(a, b) == SelectSeq(KeySeq(a.sources), LAMBDA s : Has(b.sources, s))

\* the nodes of g that hold a name of names
Holders(g, names) == {Get(g.sources, names[i]) : i \in DOMAIN names}

\* the node of a that node m of b, holder of a shared name, is unified with
UnifiedWith(a, b, m) ==
    LET T == SelectSeq(SharedNames(a, b), LAMBDA s : Get(b.sources, s) = m)
    IN Get(a.sources, T[Len(T)])

LabelsOf(es) == [j \in DOMAIN es |-> es[j][2]]

RECURSIVE EdgeCount(_, _)
EdgeCount(edges, i) ==
    IF i > Len(edges) THEN 0 ELSE Len(edges[i][2]) + EdgeCount(edges, i + 1)

\* the graphs of the scenario: A with the edge 1 -ARG0-> 2, label 1:see, source
\* S:2 and root 1; B with the node 10 labelled dog, source S:10 and root 10
ScenarioA ==
    [nodes |-> {1, 2}, edges |-> << <<1, << <<2, "ARG0">> >> >> >>,
     node_labels |-> << <<1, "see">> >>, sources |-> << <<"S", 2>> >>, root |-> 1]

ScenarioB == FarGraph

\* C15: in a merge A + B that returns, a node of A whose label changes holds a
\* shared source and its new label is the label of a node of B that holds a
\* shared source; the label of a node of B that holds a shared source ends on
\* the node of A it is unified with, whatever A had there; every other node of
\* A keeps its label; the edge list of an origin of A starts with A's entries
\* in their order and, where a node of B is unified with it, continues with
\* B's entries in their order; no edge entry is lost or added.  For the graphs
\* of the scenario the result has the nodes {1, 2}, the edge 1 -ARG0-> 2, the
\* labels 1:see and 2:dog, the source S:2 and the root 1.
C15_MergeAppendsAndOverwrites ==
    (last.op = "merge" /\ last.outcome = OK) =>
        LET a == G(last.obj)
            b == G(last.other)
            r == G("R")
            shared == SharedNames(a, b)
            list(g, n) == IF Has(g.edges, n) THEN Get(g.edges, n) ELSE <<>>
        IN /\ \A n \in Keys(a.node_labels) :
                /\ Has(r.node_labels, n)
                /\ get_node_label(r, n) # get_node_label(a, n) =>
                      /\ n \in Holders(a, shared)
                      /\ \E m \in Holders(b, shared) :
                            /\ Has(b.node_labels, m)
                            /\ get_node_label(r, n) = get_node_label(b, m)
           /\ \A m \in Holders(b, shared) :
                Has(b.node_labels, m) =>
                   /\ Has(r.node_labels, UnifiedWith(a, b, m))
                   /\ get_node_label(r, UnifiedWith(a, b, m)) = get_node_label(b, m)
           /\ \A n \in Keys(a.edges) :
                /\ Has(r.edges, n)
                /\ Len(Get(r.edges, n)) >= Len(Get(a.edges, n))
                /\ SubSeq(Get(r.edges, n), 1, Len(Get(a.edges, n))) = Get(a.edges, n)
           /\ \A m \in Holders(b, shared) :
                Has(b.edges, m) =>
                   LabelsOf(list(r, UnifiedWith(a, b, m))) =
                      LabelsOf(list(a, UnifiedWith(a, b, m)))
                         \o LabelsOf(Get(b.edges, m))
           /\ EdgeCount(r.edges, 1) = EdgeCount(a.edges, 1) + EdgeCount(b.edges, 1)
           /\ (a = ScenarioA /\ b = ScenarioB) =>
                 /\ r.nodes = {1, 2}
                 /\ AsMap(r.edges) = {<<1, << <<2, "ARG0">> >> >>}
                 /\ AsMap(r.node_labels) = {<<1, "see">>, <<2, "dog">>}
                 /\ AsMap(r.sources) = {<<"S", 2>>}
                 /\ r.root = 1

C15_Witness ==
    /\ last.op = "merge" /\ last.outcome = OK /\ "R" \in live
    /\ \E m \in Holders(G(last.other), SharedNames(G(last.obj), G(last.other))) :
          LET n == UnifiedWith(G(last.obj), G(last.other), m)
          IN /\ Has(G(last.obj).node_labels, n)
             /\ Has(G(last.other).node_labels, m)
             /\ get_node_label(G(last.other), m) # get_node_label(G(last.obj), n)
             /\ get_node_label(G("R"), n) = get_node_label(G(last.other), m)
             /\ Has(G(last.obj).edges, n) /\ Has(G(last.other).edges, m)
             /\ Len(Get(G("R").edges, n)) > Len(Get(G(last.obj).edges, n))

====
